---- MODULE Spec2Model ----
(***************************************************************************)
(* The avatar chat backend (POST /chat with its response cache, speech    *)
(* synthesis and lip-sync fan-out over the shared audios/ directory) and  *)
(* the front-end chat session (useChat.jsx), as state machines.            *)
(***************************************************************************)
EXTENDS Naturals, Sequences, FiniteSets

\* ------------------------------------------------------------- bounds
\* /chat requests the server receives in one run; they may overlap.
MaxReq == 2

Reqs == 1..MaxReq
\* chat() calls the front-end session makes in one run
MaxChats == 3
\* startRecording() calls of one voice-capture run
MaxSessions == 2

\* --------------------------------------------------------- JS values
\* Every JavaScript value a message field can hold, in one record shape.
Val(kind, s, n) == [k |-> kind, s |-> s, n |-> n]
Undefined == Val("undefined", "", 0)
Str(s) == Val("string", s, 0)
EmptyObj == Val("object", "", 0)
\* base64 of the bytes of a file that holds speech synthesized from text s
\* for request n (n = 0: a pre-baked file shipped with the server)
Base64(s, n) == Val("base64", s, n)
\* parsed timing JSON extracted from audio of text s synthesized for request n
Timing(s, n) == Val("timing", s, n)

\* JS truthiness of a value, as `||` and `if (...)` read it
Truthy(v) == ~(v.k = "undefined" \/ v.k = "null" \/ (v.k = "string" /\ v.s = ""))

Fields == {"text", "audio", "lipsync", "facialExpression", "animation"}

Msg(t, a, l, f, an) ==
    [text |-> t, audio |-> a, lipsync |-> l, facialExpression |-> f, animation |-> an]

\* res.send serialises with JSON.stringify, which drops a property whose
\* value is undefined: the message the caller receives.
ToJson(m) == [f \in {g \in Fields : m[g].k # "undefined"} |-> m[f]]
ToJsonList(ms) == [i \in 1..Len(ms) |-> ToJson(ms[i])]

\* ------------------------------------------------------------ inputs
\* req.body.message: a string (a sequence of characters) or absent.
Absent == <<"<absent>">>
UserTexts == {<<>>, <<"a", "?">>, <<"a", "!">>}
UserMessages == UserTexts \cup {Absent}

AlphaNum == {"a"}
\* userMessage.replace(/[^a-zA-Z0-9]/g, '_')
SanitizeKey(s) == [i \in 1..Len(s) |-> IF s[i] \in AlphaNum THEN s[i] ELSE "_"]
\* `response_${...}`
CacheKey(s) == <<"response_">> \o SanitizeKey(s)
\* `lipsync_${message.text}`
LipSyncCacheKey(t) == <<"lipsync_", t>>

\* ------------------------------------------------ completion replies
\* One entry of the reply array: a JSON object with some of text,
\* facialExpression, animation (a missing one is undefined), or null.
Entry(t, f, an) == [nul |-> FALSE, text |-> t, facialExpression |-> f, animation |-> an]
NullEntry == [nul |-> TRUE, text |-> Undefined, facialExpression |-> Undefined,
              animation |-> Undefined]
Hi == Entry(Str("Hi"), Str("smile"), Str("Talking_1"))
Yo == Entry(Str("Yo"), Str("default"), Str("Terrified"))
Bare == Entry(Undefined, Str(""), Undefined)

\* A parsed JSON value: null, an array of entries, or an object, which has
\* the entry's fields itself and may have a `messages` property
\* (mkind: "none", "array" with mitems, or "string").
JNull == [t |-> "null", items |-> <<>>, obj |-> NullEntry, mkind |-> "none"]
JArray(es) == [t |-> "array", items |-> es, obj |-> NullEntry, mkind |-> "none"]
JObject(e) == [t |-> "object", items |-> <<>>, obj |-> e, mkind |-> "none"]
JWithMessages(es) == [t |-> "object", items |-> es, obj |-> Bare, mkind |-> "array"]
JWithMessagesString == [t |-> "object", items |-> <<>>, obj |-> Bare, mkind |-> "string"]

\* The raw reply text, in chunks: a Markdown fence ("```json\n", "\n```"),
\* a control character, JSON text (with the value it parses to), or prose.
Fence == [c |-> "fence", j |-> JNull]
Ctrl == [c |-> "ctrl", j |-> JNull]
Prose == [c |-> "prose", j |-> JNull]
Json(j) == [c |-> "json", j |-> j]

RawReplies ==
    { <<Json(JArray(<<Hi>>))>>,
      <<Fence, Json(JArray(<<Hi, Yo>>)), Fence>>,
      <<Json(JArray(<<Hi>>)), Ctrl>>,
      <<Json(JObject(Hi))>>,
      <<Json(JWithMessages(<<Hi>>))>>,
      <<Json(JArray(<<Bare>>))>>,
      <<Json(JArray(<<>>))>>,
      <<Json(JArray(<<Hi, NullEntry>>))>>,
      <<Json(JWithMessagesString)>>,
      <<Json(JNull)>>,
      <<Prose>>,
      <<Prose, Json(JArray(<<Hi>>))>> }

IsStripped(ch) == ch.c \in {"fence", "ctrl"}
\* rawContent.replace(/```json\n?|\n?```/g, '').trim()
\*           .replace(/[\x00-\x1F\x7F-\x9F]/g, '')
Sanitize(raw) == SelectSeq(raw, LAMBDA ch : ~IsStripped(ch))
\* JSON.parse(rawContent) returns (does not throw)
Parses(clean) == Len(clean) = 1 /\ clean[1].c = "json"

\* lines 217-223: what `messages` is after the inner try, or that it threw
\* (null.messages is a TypeError, caught by the same catch as a parse error)
InnerTryThrows(clean) == ~Parses(clean) \/ clean[1].j.t = "null"
IsArrayAfterNormalize(j) == ~(j.t = "object" /\ j.mkind = "string")
Normalize(j) ==
    IF j.t = "object" /\ j.mkind = "array" THEN j.items
    ELSE IF j.t = "array" THEN j.items
    ELSE <<j.obj>>

DefaultText == "Oops, something went wrong!"
Or(v, d) == IF Truthy(v) THEN v ELSE Str(d)
\* lines 231-237
Validate(e) ==
    Msg(Or(e.text, DefaultText), Str(""), EmptyObj,
        Or(e.facialExpression, "default"), Or(e.animation, "Idle"))
\* messages.map(...) throws: messages is no array, or an entry is null
MapThrows(j) ==
    \/ ~IsArrayAfterNormalize(j)
    \/ \E i \in 1..Len(Normalize(j)) : Normalize(j)[i].nul
ValidateAll(j) == [i \in 1..Len(Normalize(j)) |-> Validate(Normalize(j)[i])]

\* message indexes (1-based here, message_0, message_1 in the file names)
Indexes == 1..2

\* -------------------------------------------------------------- state
VARIABLES
    lemonfoxApiKey,    \* the credential: "-" selects the no-credential mode
    fallbackMessages,  \* [noApiKey, error]: the two static lists, after the preload
    cache,             \* the NodeCache: key -> [list, obj], present keys only
    files,             \* audios/message_<i>.mp3 / .wav / .json, shared by all requests
    req,               \* the /chat requests: handler position, locals, response
    stt,               \* the /transcribe requests: handler position, response
    \* the front-end chat session (useChat.jsx)
    messages,          \* useState([]): the queue of messages to play
    message,           \* useState(): the message being played, <<>> for null
    loading,           \* useState(false)
    transcriptionStatus,
    chats,             \* chat() calls: made, awaiting fetch; history of the queue
    voice              \* the voice-capture session: state, refs, browser objects

backend == <<lemonfoxApiKey, fallbackMessages, cache, files, req, stt>>
front == <<messages, message, loading, transcriptionStatus, chats, voice>>

NoFile == Val("nofile", "", 0)
Mp3(s, n) == Val("mp3", s, n)
Wav(s, n) == Val("wav", s, n)

ListEntry_Fallback(ms) ==
    [list |-> <<Msg(Str("Oops, something went wrong! Can you try again, dear?"),
                    Base64("api_0", 0), Timing("api_0", 0), Str("sad"), Str("Crying"))>>,
     obj |-> Undefined]
\* a cached value: a message list (response_ keys) or one lipsync object
ListEntry(ms) == [list |-> ms, obj |-> Undefined]
ObjEntry(v) == [list |-> <<>>, obj |-> v]

GreetingText == "Hey dear... How was your day?"

\* lines 36-55, then the preload of lines 68-73: `.catch(() => "")` gives ""
\* for an unreadable audio file, `.catch(() => {})` gives undefined (an arrow
\* function with an empty block) for an unreadable timing file.
Preloaded(aOk, jOk) ==
    LET audio == IF aOk THEN Base64("api_0", 0) ELSE Str("")
        lipsync == IF jOk THEN Timing("api_0", 0) ELSE Undefined
    IN  [noApiKey |->
            <<Msg(Str("Please my dear, don't forget to add your Lemonfox API key!"),
                  audio, lipsync, Str("angry"), Str("Angry"))>>,
         error |->
            <<Msg(Str("Oops, something went wrong! Can you try again, dear?"),
                  audio, lipsync, Str("sad"), Str("Crying"))>>]

\* ----------------------------------------------------------- the cache
CacheHas_Never(c, key) == FALSE
\* cache.get(key) returns a value (lines 153-154, 268-269)
CacheHas(c, key) == key \in DOMAIN c
\* cache.set(key, value)
CacheSet(c, key, v) == [k \in DOMAIN c \cup {key} |-> IF k = key THEN v ELSE c[k]]
\* stdTTL: 3600: an hour passes without a write and every entry is gone
CacheFlush(c) == [k \in {} |-> c[k]]

InitReq ==
    [pc |-> "idle", userMessage |-> Absent, messages |-> <<>>, tts |-> <<>>,
     stage |-> <<>>, status |-> 0, body |-> <<>>, nresp |-> 0, ext |-> {},
     hit |-> FALSE, cause |-> "none", execFailed |-> {}, caught |-> {},
     log |-> {}, prior |-> {}, current |-> FALSE, reply |-> <<>>, swapped |-> FALSE]

\* a /transcribe request before it arrives
InitStt == [pc |-> "idle", audioBase64 |-> Undefined, status |-> 0, body |-> "none",
            nresp |-> 0, upstream |-> 0, outcome |-> "none"]

InitBackend ==
    /\ lemonfoxApiKey \in {"-", "key"}
    /\ \E aOk \in BOOLEAN, jOk \in BOOLEAN : fallbackMessages = Preloaded(aOk, jOk)
    /\ cache = CacheFlush(<< >>)
    /\ files = [mp3 |-> [i \in Indexes |-> NoFile], wav |-> [i \in Indexes |-> NoFile],
                json |-> [i \in Indexes |-> NoFile]]
    /\ req = [r \in Reqs |-> InitReq]
    /\ stt = [t \in Reqs |-> InitStt]

\* History: a finished request stays `current` until the response-cache entry
\* of one of `keys` is written by another request or expires.
Outdated(rq, r, keys) ==
    [x \in Reqs |->
        IF x # r /\ rq[x].pc = "done" /\ rq[x].userMessage # Absent
                 /\ CacheKey(rq[x].userMessage) \in keys
        THEN [rq[x] EXCEPT !.current = FALSE] ELSE rq[x]]

\* a task of the request's fan-out has not run to its end
Pending(q) ==
    \E i \in 1..Len(q.tts) :
        q.tts[i] = "pending" \/ q.stage[i] \notin {"wait", "done", "rejected"}
\* the handler has returned and no task of it is left: its locals are garbage
Gc(q) ==
    IF q.pc = "done" /\ ~Pending(q)
    THEN [q EXCEPT !.messages = <<>>, !.tts = <<>>, !.stage = <<>>, !.log = {}]
    ELSE q

\* res.send({ messages }) / res.status(500).send({ messages })
Respond(q, status, ms) ==
    Gc([q EXCEPT !.pc = "done", !.status = status, !.body = ToJsonList(ms),
                 !.nresp = @ + 1, !.current = TRUE])

ParseFailureStatus_Ok == 500 - 300
\* line 227: the status of the answer to an unparsable reply
ParseFailureStatus == 500

CatchAll_Unhandled(q, why) == [q EXCEPT !.pc = "thrown", !.cause = why]
\* the catch of line 290
CatchAll(q, why) ==
    [Respond(q, 500, fallbackMessages.error) EXCEPT
        !.cause = why, !.reply = <<>>, !.swapped = FALSE]

NoCredential_Empty(k) == k = ""
\* line 173
NoCredential(k) == k = "-"

\* ------------------------------------------------- POST /chat, lines 148-175
\* From the request's arrival to the handler's first await.
Start(r, m) ==
    /\ req[r].pc = "idle"
    /\ LET q == [req[r] EXCEPT !.userMessage = m,
                    !.prior = {x \in Reqs : /\ req[x].pc = "done" /\ req[x].current
                                            /\ req[x].userMessage = m}]
       IN  IF m = Absent
           THEN \* undefined.replace: a TypeError outside the try, no response
                req' = [req EXCEPT ![r] = [q EXCEPT !.pc = "thrown"]]
           ELSE IF CacheHas(cache, CacheKey(m))
           THEN req' = [req EXCEPT ![r] =
                          [Respond(q, 200, cache[CacheKey(m)].list) EXCEPT !.hit = TRUE]]
           ELSE IF m = <<>>
           THEN req' = [req EXCEPT ![r] = [q EXCEPT !.pc = "greeting"]]
           ELSE IF NoCredential(lemonfoxApiKey)
           THEN req' = [req EXCEPT ![r] = Respond(q, 200, fallbackMessages.noApiKey)]
           ELSE req' = [req EXCEPT ![r] =
                          [q EXCEPT !.pc = "llm", !.ext = @ \cup {"completion"}]]
    /\ UNCHANGED <<lemonfoxApiKey, fallbackMessages, cache, files>>

\* lines 159-171: the two reads of the pre-baked greeting files return
Greeting(r) ==
    /\ req[r].pc = "greeting"
    /\ \E aOk \in BOOLEAN, jOk \in BOOLEAN :
         LET greeting ==
               <<Msg(Str(GreetingText),
                     IF aOk THEN Base64("intro_0", 0) ELSE Str(""),
                     IF jOk THEN Timing("intro_0", 0) ELSE Undefined,
                     Str("smile"), Str("Talking_1"))>>
             key == CacheKey(req[r].userMessage)
         IN  /\ cache' = CacheSet(cache, key, ListEntry(greeting))
             /\ req' = [Outdated(req, r, {key}) EXCEPT ![r] =
                          Respond([req[r] EXCEPT !.messages = greeting], 200, greeting)]
    /\ UNCHANGED <<lemonfoxApiKey, fallbackMessages, files>>

\* ------------------------------------------------- POST /chat, lines 177-293
\* History: the task of message i completes, before the request is answered,
\* while the task of an earlier message is still in a state of `waiting`.
Overtakes(q, states, i, waiting) ==
    q.pc \in {"tts", "lipsync"} /\ \E k \in 1..(i - 1) : states[k] \in waiting
LipSyncRunning == {"convert", "rhubarb", "readAudio", "readJson", "readFailed", "readCached"}
AnyTtsOk(q) == \E i \in 1..Len(q.tts) : q.tts[i] = "ok"
\* line 263: every ttsPromise has resolved
AllTtsOk(q) == \A i \in 1..Len(q.tts) : q.tts[i] = "ok"
AnyDone(q) == \E i \in 1..Len(q.stage) : q.stage[i] = "done"
\* line 287: every lipSyncPromise has resolved
AllDone(q) == \A i \in 1..Len(q.stage) : q.stage[i] = "done"

\* line 263 resolved: lines 266-272 run for every message up to its first
\* await, so every lipsync_ lookup reads the cache as it is now.
StartLipSync(q, c) ==
    LET cached(i) == CacheHas(c, LipSyncCacheKey(q.messages[i].text.s))
    IN  [q EXCEPT
           !.pc = "lipsync",
           !.stage = [i \in 1..Len(q.messages) |->
                        IF cached(i) THEN "readCached" ELSE "convert"],
           !.messages = [i \in 1..Len(q.messages) |->
                           IF cached(i)
                           THEN [q.messages[i] EXCEPT !.lipsync =
                                   c[LipSyncCacheKey(q.messages[i].text.s)].obj]
                           ELSE q.messages[i]],
           !.ext = IF \E i \in 1..Len(q.messages) : ~cached(i)
                   THEN @ \cup {"exec"} ELSE @,
           !.log = @ \cup {<<i, "convertStarted">> : i \in {x \in 1..Len(q.messages) : ~cached(x)}}]

Assembled_Reversed(q) == [i \in 1..Len(q.messages) |-> q.messages[Len(q.messages) + 1 - i]]
\* lines 240, 266: each task writes into messages[index] of the array that
\* line 231 built, so the array keeps the reply's order
Assembled(q) == q.messages

\* lines 287-289 once every lipSyncPromise has resolved; otherwise the
\* handler keeps waiting (or has answered already) and only q changes.
Settle(r, q, c) ==
    IF q.pc = "lipsync" /\ AllDone(q)
    THEN LET key == CacheKey(q.userMessage)
         IN  /\ cache' = CacheSet(c, key, ListEntry(Assembled(q)))
             /\ req' = [Outdated(req, r, {key}) EXCEPT ![r] = Respond(q, 200, Assembled(q))]
    ELSE /\ cache' = c
         /\ req' = [req EXCEPT ![r] = Gc(q)]

\* lines 179-237 and the start of the fan-out of line 239: the completion
\* call returns `raw` as its message content.
LlmReturn(r, raw) ==
    /\ req[r].pc = "llm"
    /\ LET clean == Sanitize(raw)
           j == clean[1].j
           q == req[r]
       IN  IF InnerTryThrows(clean)
           THEN \* lines 224-228
                /\ req' = [req EXCEPT ![r] =
                             [Respond(q, ParseFailureStatus, fallbackMessages.error) EXCEPT
                                !.cause = IF Parses(clean) THEN "null" ELSE "parse"]]
                /\ cache' = cache
           ELSE IF MapThrows(j)
           THEN /\ req' = [req EXCEPT ![r] = CatchAll(q, "normalize")]
                /\ cache' = cache
           ELSE LET ms == ValidateAll(j)
                    q1 == [q EXCEPT !.messages = ms, !.reply = Normalize(j),
                                    !.tts = [i \in 1..Len(ms) |-> "pending"],
                                    !.stage = [i \in 1..Len(ms) |-> "wait"],
                                    !.pc = "tts",
                                    !.ext = IF Len(ms) > 0 THEN @ \cup {"speech"} ELSE @]
                IN  IF Len(ms) = 0
                    THEN Settle(r, StartLipSync(q1, cache), cache)
                    ELSE /\ req' = [req EXCEPT ![r] = q1]
                         /\ cache' = cache
    /\ UNCHANGED <<lemonfoxApiKey, fallbackMessages, files>>

\* the completion call rejects (network failure, provider error)
LlmFail(r) ==
    /\ req[r].pc = "llm"
    /\ req' = [req EXCEPT ![r] = CatchAll(req[r], "completion")]
    /\ UNCHANGED <<lemonfoxApiKey, fallbackMessages, cache, files>>

\* lines 239-261 for message i: the speech call answers; ok: a 2xx reply whose
\* body is streamed into message_<i>.mp3. The task runs to its end even when
\* Promise.all has already rejected and the request is answered.
Speech(r, i, ok) ==
    /\ i \in 1..Len(req[r].tts)
    /\ req[r].tts[i] = "pending"
    /\ LET q == [req[r] EXCEPT !.tts[i] = IF ok THEN "ok" ELSE "failed",
                                !.log = IF ok THEN @ \cup {<<i, "audioWritten">>} ELSE @,
                                !.swapped = @ \/ Overtakes(req[r], req[r].tts, i, {"pending"})]
       IN  IF ok
           THEN /\ files' = [files EXCEPT !.mp3[i] = Mp3(q.messages[i].text.s, r)]
                /\ req' = [req EXCEPT ![r] =
                             IF q.pc = "tts" /\ AllTtsOk(q)
                             THEN StartLipSync(q, cache) ELSE Gc(q)]
           ELSE /\ files' = files
                /\ req' = [req EXCEPT ![r] =
                             IF q.pc = "tts" THEN CatchAll(q, "speech") ELSE Gc(q)]
    /\ UNCHANGED <<lemonfoxApiKey, fallbackMessages, cache>>

OnLipSyncError_NoAudio(q, i) ==
    [q EXCEPT !.stage[i] = "done", !.messages[i].lipsync = EmptyObj, !.caught = @ \cup {i}]
\* lines 278-279: the try of lines 273-277 threw for message i; the catch
\* block goes on to read the audio (lines 280-281)
OnLipSyncError(q, i) == [q EXCEPT !.stage[i] = "readFailed"]

\* lines 101-103, 109: ffmpeg exits; ok: it wrote message_<i>.wav
ConvertMp3ToWav(r, i, ok) ==
    /\ i \in 1..Len(req[r].stage)
    /\ req[r].stage[i] = "convert"
    /\ files' = IF ok THEN [files EXCEPT !.wav[i] = Wav(files.mp3[i].s, files.mp3[i].n)]
                ELSE files
    /\ req' = [req EXCEPT ![r] =
                 IF ok THEN [@ EXCEPT !.stage[i] = "rhubarb",
                                      !.log = @ \cup {<<i, "converted">>,
                                                      <<i, "extractStarted">>}]
                 ELSE OnLipSyncError([@ EXCEPT !.execFailed = @ \cup {i}], i)]
    /\ UNCHANGED <<lemonfoxApiKey, fallbackMessages, cache>>

\* lines 113-115: rhubarb exits; ok: it wrote message_<i>.json
Rhubarb(r, i, ok) ==
    /\ i \in 1..Len(req[r].stage)
    /\ req[r].stage[i] = "rhubarb"
    /\ files' = IF ok
                THEN [files EXCEPT !.json[i] = Timing(files.wav[i].s, files.wav[i].n)]
                ELSE files
    /\ req' = [req EXCEPT ![r] =
                 IF ok THEN [@ EXCEPT !.stage[i] = "readAudio"]
                 ELSE OnLipSyncError([@ EXCEPT !.execFailed = @ \cup {i}], i)]
    /\ UNCHANGED <<lemonfoxApiKey, fallbackMessages, cache>>

\* audioFileToBase64(fileName) on the file as it is now
AudioFileToBase64(i) == Base64(files.mp3[i].s, files.mp3[i].n)

\* line 275; a failed read is caught at line 278
ReadAudio(r, i, ok) ==
    /\ i \in 1..Len(req[r].stage)
    /\ req[r].stage[i] = "readAudio"
    /\ req' = [req EXCEPT ![r] =
                 IF ok THEN [@ EXCEPT !.stage[i] = "readJson",
                                      !.messages[i].audio = AudioFileToBase64(i)]
                 ELSE OnLipSyncError(@, i)]
    /\ UNCHANGED <<lemonfoxApiKey, fallbackMessages, cache, files>>

\* lines 276-277, 284; a failed read or parse is caught at line 278
ReadJson(r, i, ok) ==
    /\ i \in 1..Len(req[r].stage)
    /\ req[r].stage[i] = "readJson"
    /\ IF ok
       THEN Settle(r, [req[r] EXCEPT !.stage[i] = "done",
                                     !.messages[i].lipsync = files.json[i],
                                     !.swapped = @ \/ Overtakes(req[r], req[r].stage, i, LipSyncRunning)],
                   CacheSet(cache, LipSyncCacheKey(req[r].messages[i].text.s),
                            ObjEntry(files.json[i])))
       ELSE /\ req' = [req EXCEPT ![r] = OnLipSyncError(@, i)]
            /\ cache' = cache
    /\ UNCHANGED <<lemonfoxApiKey, fallbackMessages, files>>

\* lines 280-281 (after a caught failure) and line 271 (lip-sync served from
\* the cache): the read of the .mp3. It is outside any try of the task: when
\* it fails the task rejects, and so does the Promise.all of line 287.
ReadAudioOnly(r, i, ok) ==
    /\ i \in 1..Len(req[r].stage)
    /\ req[r].stage[i] \in {"readFailed", "readCached"}
    /\ LET q == req[r]
       IN  IF ok
           THEN Settle(r, [q EXCEPT !.stage[i] = "done",
                                    !.swapped = @ \/ Overtakes(q, q.stage, i, LipSyncRunning),
                                    !.messages[i].audio = AudioFileToBase64(i),
                                    !.messages[i].lipsync =
                                        IF q.stage[i] = "readFailed" THEN EmptyObj ELSE @,
                                    !.caught =
                                        IF q.stage[i] = "readFailed" THEN @ \cup {i} ELSE @],
                       cache)
           ELSE /\ req' = [req EXCEPT ![r] =
                             IF q.pc = "lipsync"
                             THEN CatchAll([q EXCEPT !.stage[i] = "rejected"], "postprocess")
                             ELSE Gc([q EXCEPT !.stage[i] = "rejected"])]
                /\ cache' = cache
    /\ UNCHANGED <<lemonfoxApiKey, fallbackMessages, files>>

\* the cache window of every entry runs out
Expire ==
    /\ DOMAIN cache # {}
    /\ cache' = CacheFlush(cache)
    /\ req' = Outdated(req, 0, DOMAIN cache)
    /\ UNCHANGED <<lemonfoxApiKey, fallbackMessages, files>>

\* the requests arrive in the order of their numbers
IsNextRequest(r) == req[r].pc = "idle" /\ \A x \in 1..(r - 1) : req[x].pc # "idle"
\* every earlier request has been answered (or its handler has thrown)
AllAnswered == \A x \in Reqs : req[x].pc \in {"idle", "done", "thrown"}

\* ------------------------------------------- POST /transcribe, lines 119-146
\* req.body.audioBase64: absent, "", base64 text, or a JSON number
AudioInputs == {Undefined, Str(""), Str("AAAA"), Val("number", "", 5)}
\* what the provider call does: a 2xx reply with a JSON body, a 2xx reply
\* whose body is no JSON, another status, or a network failure
SttOutcomes == {"ok", "badJson", "non2xx", "rejected"}

BadTranscribe_AudioOnly(a, k) == ~Truthy(a)
\* line 121
BadTranscribe(a, k) == ~Truthy(a) \/ k = "-"

SttRespond(q, status, body) ==
    [q EXCEPT !.pc = "done", !.status = status, !.body = body, !.nresp = @ + 1]

\* lines 119-132: from the request's arrival to the await of fetch.
\* Buffer.from(<number>, "base64") throws a TypeError inside the try.
Transcribe(t, a) ==
    /\ stt[t].pc = "idle"
    /\ LET q == [stt[t] EXCEPT !.audioBase64 = a]
       IN  stt' = [stt EXCEPT ![t] =
                     IF BadTranscribe(a, lemonfoxApiKey)
                     THEN SttRespond(q, 400, "Missing audio or API key")
                     ELSE IF a.k # "string"
                     THEN SttRespond([q EXCEPT !.outcome = "bufferThrew"], 500,
                                     "Transcription failed")
                     ELSE [q EXCEPT !.pc = "upstream", !.upstream = @ + 1]]
    /\ UNCHANGED <<lemonfoxApiKey, fallbackMessages, cache, files, req>>

\* lines 132-145: the provider call settles
TranscribeSettled(t, o) ==
    /\ stt[t].pc = "upstream"
    /\ stt' = [stt EXCEPT ![t] =
                 IF o = "ok"
                 THEN SttRespond([@ EXCEPT !.outcome = o], 200, "text")
                 ELSE SttRespond([@ EXCEPT !.outcome = o], 500, "Transcription failed")]
    /\ UNCHANGED <<lemonfoxApiKey, fallbackMessages, cache, files, req>>

\* ------------------------------------------- useChat.jsx: the chat session
\* What fetch and response.json() give chat(): a network failure, or a
\* status with the body's message list.
NetworkError == [failed |-> TRUE, status |-> 0, list |-> <<>>]
Reply(status, ms) == [failed |-> FALSE, status |-> status, list |-> ToJsonList(ms)]
FetchOutcomes ==
    { NetworkError,
      Reply(200, <<Validate(Hi)>>),
      Reply(200, <<Validate(Hi), Validate(Yo)>>),
      Reply(200, <<>>),
      Reply(500, Preloaded(TRUE, TRUE).error) }

\* ------------------------------------------- useChat.jsx: voice capture
Sessions == 1..MaxSessions
\* transcripts are strings, as sequences of characters
NoText == <<>>
RECURSIVE TrimStart(_)
TrimStart(s) == IF s # <<>> /\ Head(s) = " " THEN TrimStart(Tail(s)) ELSE s
RECURSIVE TrimEnd(_)
TrimEnd(s) ==
    IF s # <<>> /\ s[Len(s)] = " " THEN TrimEnd([i \in 1..(Len(s) - 1) |-> s[i]]) ELSE s
\* String.prototype.trim
Trim(s) == TrimEnd(TrimStart(s))

\* A result event, as lines 76-84 read it: the joined transcripts of the
\* final and of the interim results, and whether some result is final.
ResultEvent(f, i, fin) == [final |-> f, interim |-> i, isFinal |-> fin]
ResultEvents ==
    { ResultEvent(NoText, <<"h">>, FALSE),
      ResultEvent(NoText, <<" ">>, FALSE),
      ResultEvent(<<"y">>, NoText, TRUE),
      ResultEvent(<<"y">>, <<"h">>, TRUE) }

\* The values of `isRecording` and `transcription` in the render whose
\* startRecording was called: the handlers that the call installs (lines
\* 75-128), its timer callback (line 140) and the finishRecording they call
\* read these constants, not the current state.
Closure(rec, text) == [isRecording |-> rec, transcription |-> text]

\* history of the last finishRecording, recognition end and timer expiry
NoFinish == [called |-> FALSE, final |-> NoText, interim |-> NoText, sent |-> NoText]
NoEnd == [active |-> FALSE, restarted |-> FALSE, finished |-> FALSE]
NoExpiry == [fired |-> FALSE, recording |-> FALSE, heard |-> FALSE, stopped |-> FALSE]

InitVoice(supported) ==
    [started |-> 0, supported |-> supported,
     isRecording |-> FALSE, transcription |-> NoText,
     recognitionRef |-> 0, hasFinalResultRef |-> FALSE,
     noSpeechTimeoutRef |-> 0, finalTranscriptRef |-> NoText,
     \* the browser's SpeechRecognition objects and timers, by session
     recognitions |-> [n \in Sessions |-> "none"],
     timers |-> [n \in Sessions |-> "none"],
     closures |-> [n \in Sessions |-> Closure(FALSE, NoText)],
     heard |-> FALSE, lastInterim |-> NoText,
     finish |-> NoFinish, end |-> NoEnd, expiry |-> NoExpiry]

\* a handler runs on the session state, the status line and the chat()
\* calls it makes
Enter == [v |-> voice, status |-> transcriptionStatus, sent |-> <<>>]

\* recognitionRef.current.stop(); recognitionRef.current = null
StopRecognition(v) ==
    IF v.recognitionRef = 0 THEN v
    ELSE [v EXCEPT !.recognitions[v.recognitionRef] = IF @ = "running" THEN "stopping" ELSE @,
                   !.recognitionRef = 0]

\* clearTimeout(noSpeechTimeoutRef.current); noSpeechTimeoutRef.current = null
ClearNoSpeechTimeout(v) ==
    IF v.noSpeechTimeoutRef = 0 THEN v
    ELSE [v EXCEPT !.timers[v.noSpeechTimeoutRef] = IF @ = "armed" THEN "cleared" ELSE @,
                   !.noSpeechTimeoutRef = 0]

\* lines 148-158
StopRecordingIn(w) ==
    [w EXCEPT !.v = [StopRecognition(w.v) EXCEPT !.isRecording = FALSE],
              !.status = "Processing..."]

\* line 175: finalTranscriptRef.current || transcription.trim()
TranscriptToSend(v, cl) ==
    IF v.finalTranscriptRef # NoText THEN v.finalTranscriptRef ELSE Trim(cl.transcription)

\* lines 160-188, called by a handler whose closure is cl
FinishRecordingIn(w, cl) ==
    LET t == TranscriptToSend(w.v, cl)
    IN  [w EXCEPT
           !.v = [ClearNoSpeechTimeout(w.v) EXCEPT
                     !.isRecording = FALSE, !.finalTranscriptRef = NoText,
                     !.transcription = NoText, !.recognitionRef = 0,
                     !.finish = [called |-> TRUE, final |-> w.v.finalTranscriptRef,
                                 interim |-> w.v.lastInterim, sent |-> t]],
           !.status = IF t # NoText THEN "" ELSE "No speech detected",
           !.sent = IF t # NoText THEN Append(@, t) ELSE @]

\* the handler returns: its state updates and its chat() calls (lines 22-30)
Leave(w) ==
    /\ voice' = w.v
    /\ transcriptionStatus' = w.status
    /\ loading' = (loading \/ Len(w.sent) > 0)
    /\ chats' = [chats EXCEPT !.made = @ + Len(w.sent), !.inflight = @ + Len(w.sent)]
    /\ UNCHANGED <<messages, message>>

\* lines 44-146; startOk: recognition.start() of line 132 does not throw
StartRecording(startOk) ==
    /\ voice.started < MaxSessions
    /\ LET n == voice.started + 1
           cl == Closure(voice.isRecording, voice.transcription)
           w0 == [Enter EXCEPT
                    !.v = [StopRecognition(voice) EXCEPT
                             !.started = n, !.isRecording = TRUE, !.transcription = NoText,
                             !.hasFinalResultRef = FALSE, !.finalTranscriptRef = NoText,
                             !.heard = FALSE, !.lastInterim = NoText,
                             !.closures[n] = cl],
                    !.status = "Listening..."]
           w1 == [w0 EXCEPT !.v.recognitionRef = n,
                            !.v.recognitions[n] = IF startOk THEN "running" ELSE "none"]
           w2 == IF startOk THEN w1
                 ELSE FinishRecordingIn([w1 EXCEPT !.status = "Failed to start recognition"], cl)
       IN  IF ~voice.supported
           THEN Leave([w0 EXCEPT !.v.isRecording = FALSE,
                                 !.status = "Speech API not supported"])
           ELSE Leave([w2 EXCEPT !.v.noSpeechTimeoutRef = n, !.v.timers[n] = "armed"])

\* lines 75-108: a result event of session n; once stop() was called the
\* browser delivers at most the final result
OnResult(n, ev) ==
    /\ \/ voice.recognitions[n] = "running"
       \/ voice.recognitions[n] = "stopping" /\ ev.isFinal
    /\ LET currentTranscript == ev.final \o ev.interim
           v1 == [voice EXCEPT
                    !.transcription = currentTranscript,
                    !.finalTranscriptRef = IF ev.final # NoText THEN ev.final ELSE @,
                    !.heard = @ \/ Trim(currentTranscript) # NoText,
                    !.lastInterim = IF Trim(ev.interim) # NoText THEN Trim(ev.interim) ELSE @]
           v2 == IF Trim(currentTranscript) # NoText THEN ClearNoSpeechTimeout(v1) ELSE v1
           w == [Enter EXCEPT !.v = v2]
       IN  IF ev.isFinal
           THEN Leave(StopRecordingIn([w EXCEPT !.v.hasFinalResultRef = TRUE]))
           ELSE Leave(w)

\* recognitionRef.current.start() of line 118 restarts a recognition
CanRestart(v) == v.recognitionRef # 0 /\ v.recognitions[v.recognitionRef] \in {"none", "ended"}

\* `isRecording` as the handlers of lines 110-122 and 140-145 read it
StaleIsRecording(v, cl) == cl.isRecording

\* lines 110-122: session n ends (by itself, after stop(), or after an error)
OnEnd(n) ==
    /\ voice.recognitions[n] \in {"running", "stopping", "errored"}
    /\ LET cl == voice.closures[n]
           v0 == [voice EXCEPT !.recognitions[n] = "ended"]
           active == voice.isRecording /\ ~voice.hasFinalResultRef
           w == [Enter EXCEPT !.v = v0]
       IN  IF ~StaleIsRecording(voice, cl)
           THEN Leave(FinishRecordingIn(
                    [w EXCEPT !.v.end = [active |-> active, restarted |-> FALSE,
                                         finished |-> TRUE]], cl))
           ELSE IF ~voice.hasFinalResultRef
           THEN \* start() on null, or on a recognition that is running, throws
                Leave([w EXCEPT
                         !.v.end = [active |-> active, restarted |-> CanRestart(v0),
                                    finished |-> FALSE],
                         !.v.recognitions =
                             IF CanRestart(v0)
                             THEN [@ EXCEPT ![v0.recognitionRef] = "running"] ELSE @])
           ELSE Leave(FinishRecordingIn(
                    [w EXCEPT !.v.end = [active |-> active, restarted |-> FALSE,
                                         finished |-> TRUE]], cl))

\* lines 124-128: session n reports an error; its end event follows
OnError(n) ==
    /\ voice.recognitions[n] \in {"running", "stopping"}
    /\ Leave(FinishRecordingIn(
           [Enter EXCEPT !.v.recognitions[n] = "errored", !.status = "Error"],
           voice.closures[n]))

\* lines 140-145: the timer that the n-th startRecording set runs out
NoSpeechTimeout(n) ==
    /\ voice.timers[n] = "armed"
    /\ LET cl == voice.closures[n]
           stops == StaleIsRecording(voice, cl) /\ Trim(cl.transcription) = NoText
           w == [Enter EXCEPT
                   !.v.timers[n] = "fired",
                   !.v.expiry = [fired |-> TRUE, recording |-> voice.isRecording,
                                 heard |-> voice.heard, stopped |-> stops]]
       IN  Leave(IF stops THEN StopRecordingIn(w) ELSE w)

\* the user's stop request: stopRecording of the current render
StopRecording == Leave(StopRecordingIn(Enter))

InitChat ==
    /\ messages = <<>>
    /\ message = <<>>
    /\ loading = FALSE
    /\ transcriptionStatus = ""
    /\ chats = [made |-> 0, inflight |-> 0, dirty |-> FALSE, appended |-> <<>>, played |-> 0,
                offered |-> <<>>]

InitFront ==
    /\ InitChat
    /\ voice = InitVoice(TRUE)

\* lines 22-30: chat(message) up to its await of fetch
Chat ==
    /\ chats.made < MaxChats
    /\ loading' = TRUE
    /\ chats' = [chats EXCEPT !.made = @ + 1, !.inflight = @ + 1]
    /\ UNCHANGED <<messages, message, transcriptionStatus>>

\* line 32
ResponseOk(o) == ~o.failed /\ o.status >= 200 /\ o.status <= 299
\* line 35: [...prev, ...data.messages]
Spread(prev, list) == prev \o list

\* lines 32-41: the fetch of one chat() call settles
ChatSettled(o) ==
    /\ chats.inflight > 0
    /\ IF ResponseOk(o)
       THEN /\ messages' = Spread(messages, o.list)
            /\ transcriptionStatus' = transcriptionStatus
            /\ chats' = [chats EXCEPT !.inflight = @ - 1,
                                      !.dirty = @ \/ (messages' # messages),
                                      !.appended = @ \o o.list,
                                      !.offered = @ \o o.list]
       ELSE /\ messages' = messages
            /\ transcriptionStatus' = "Failed to send message"
            /\ chats' = [chats EXCEPT !.inflight = @ - 1,
                                      !.offered = IF o.failed THEN @ ELSE @ \o o.list]
    /\ loading' = FALSE
    /\ message' = message

\* the sequence without its first k elements (all of them gone: empty)
Drop(seq, k) == IF k >= Len(seq) THEN <<>> ELSE [i \in 1..(Len(seq) - k) |-> seq[i + k]]
Slice1_Last(prev) == IF Len(prev) = 0 THEN <<>> ELSE [i \in 1..(Len(prev) - 1) |-> prev[i]]
\* prev.slice(1)
Slice1(prev) == Drop(prev, 1)

\* lines 190-192
OnMessagePlayed ==
    /\ messages' = Slice1(messages)
    /\ chats' = [chats EXCEPT !.dirty = @ \/ (messages' # messages),
                              !.played = IF Len(messages) > 0 THEN @ + 1 ELSE @]
    /\ UNCHANGED <<message, loading, transcriptionStatus>>

\* lines 194-200: the effect React runs after a render in which `messages`
\* has changed
MessagesEffect ==
    /\ chats.dirty
    /\ message' = IF Len(messages) > 0 THEN <<messages[1]>> ELSE <<>>
    /\ chats' = [chats EXCEPT !.dirty = FALSE]
    /\ UNCHANGED <<messages, loading, transcriptionStatus>>

\* ------------------------------------------------------ specifications
\* A client that sends its requests one after the other; the tasks a request
\* left behind when it was answered early still run beside the next one.
Next ==
    \/ \E r \in Reqs, m \in UserMessages :
          IsNextRequest(r) /\ AllAnswered /\ Start(r, m) /\ UNCHANGED <<front, stt>>
    \/ \E r \in Reqs : Greeting(r) /\ UNCHANGED <<front, stt>>
    \/ \E r \in Reqs, raw \in RawReplies : LlmReturn(r, raw) /\ UNCHANGED <<front, stt>>
    \/ \E r \in Reqs : LlmFail(r) /\ UNCHANGED <<front, stt>>
    \/ \E r \in Reqs, i \in Indexes, ok \in BOOLEAN : Speech(r, i, ok) /\ UNCHANGED <<front, stt>>
    \/ \E r \in Reqs, i \in Indexes, ok \in BOOLEAN :
          ConvertMp3ToWav(r, i, ok) /\ UNCHANGED <<front, stt>>
    \/ \E r \in Reqs, i \in Indexes, ok \in BOOLEAN : Rhubarb(r, i, ok) /\ UNCHANGED <<front, stt>>
    \/ \E r \in Reqs, i \in Indexes, ok \in BOOLEAN : ReadAudio(r, i, ok) /\ UNCHANGED <<front, stt>>
    \/ \E r \in Reqs, i \in Indexes, ok \in BOOLEAN : ReadJson(r, i, ok) /\ UNCHANGED <<front, stt>>
    \/ \E r \in Reqs, i \in Indexes, ok \in BOOLEAN :
          ReadAudioOnly(r, i, ok) /\ UNCHANGED <<front, stt>>
    \/ Expire /\ UNCHANGED <<front, stt>>

Init == InitBackend /\ InitFront
vars == <<backend, front>>
Spec == Init /\ [][Next]_vars

\* Two clients whose requests for one cache key overlap, on a server with
\* the credential set.
Overlapping == {1, 2}
OverlapTexts == {<<"a", "?">>}
InitOverlap ==
    /\ InitBackend /\ InitFront
    /\ lemonfoxApiKey = "key"
    /\ fallbackMessages = Preloaded(TRUE, TRUE)
NextOverlap ==
    \/ \E r \in Overlapping, m \in OverlapTexts :
          IsNextRequest(r) /\ Start(r, m) /\ UNCHANGED <<front, stt>>
    \/ \E r \in Overlapping, raw \in RawReplies : LlmReturn(r, raw) /\ UNCHANGED <<front, stt>>
    \/ \E r \in Overlapping : LlmFail(r) /\ UNCHANGED <<front, stt>>
    \/ \E r \in Overlapping, i \in Indexes, ok \in BOOLEAN :
          Speech(r, i, ok) /\ UNCHANGED <<front, stt>>
    \/ \E r \in Overlapping, i \in Indexes, ok \in BOOLEAN :
          ConvertMp3ToWav(r, i, ok) /\ UNCHANGED <<front, stt>>
    \/ \E r \in Overlapping, i \in Indexes, ok \in BOOLEAN :
          Rhubarb(r, i, ok) /\ UNCHANGED <<front, stt>>
    \/ \E r \in Overlapping, i \in Indexes, ok \in BOOLEAN :
          ReadAudio(r, i, ok) /\ UNCHANGED <<front, stt>>
    \/ \E r \in Overlapping, i \in Indexes, ok \in BOOLEAN :
          ReadJson(r, i, ok) /\ UNCHANGED <<front, stt>>
    \/ \E r \in Overlapping, i \in Indexes, ok \in BOOLEAN :
          ReadAudioOnly(r, i, ok) /\ UNCHANGED <<front, stt>>
SpecOverlap == InitOverlap /\ [][NextOverlap]_vars

\* Clients of POST /transcribe, whose requests may overlap.
NextTranscribe ==
    \/ \E t \in Reqs, a \in AudioInputs : Transcribe(t, a) /\ UNCHANGED front
    \/ \E t \in Reqs, o \in SttOutcomes : TranscribeSettled(t, o) /\ UNCHANGED front
SpecTranscribe == Init /\ [][NextTranscribe]_vars

\* A voice-capture run in the browser: the user starts and stops recording,
\* the browser delivers results, errors, ends and timer expiries.
InitCapture ==
    /\ InitBackend /\ lemonfoxApiKey = "key" /\ fallbackMessages = Preloaded(TRUE, TRUE)
    /\ InitChat
    /\ \E supported \in BOOLEAN : voice = InitVoice(supported)
NextCapture ==
    \/ \E startOk \in BOOLEAN : StartRecording(startOk) /\ UNCHANGED backend
    \/ \E n \in Sessions, ev \in ResultEvents : OnResult(n, ev) /\ UNCHANGED backend
    \/ \E n \in Sessions : OnEnd(n) /\ UNCHANGED backend
    \/ \E n \in Sessions : OnError(n) /\ UNCHANGED backend
    \/ \E n \in Sessions : NoSpeechTimeout(n) /\ UNCHANGED backend
    \/ StopRecording /\ UNCHANGED backend
SpecCapture == InitCapture /\ [][NextCapture]_vars

\* The chat session in the browser, against a server that answers each
\* chat() call with one of FetchOutcomes.
InitSession ==
    /\ InitOverlap
NextSession ==
    \/ Chat /\ UNCHANGED <<backend, voice>>
    \/ \E o \in FetchOutcomes : ChatSettled(o) /\ UNCHANGED <<backend, voice>>
    \/ OnMessagePlayed /\ UNCHANGED <<backend, voice>>
    \/ MessagesEffect /\ UNCHANGED <<backend, voice>>
SpecSession == InitSession /\ [][NextSession]_vars

\* ============================================================== claims
Answered(r) == req[r].pc = "done"
ErrorBody == ToJsonList(fallbackMessages.error)
NoApiKeyBody == ToJsonList(fallbackMessages.noApiKey)
IsAudio(v) == v.k = "base64" /\ v.s # ""

\* C1 as stated: a second call with the same text, made within the cache
\* window of the first, returns the list the first call returned and makes
\* no external call, whatever the outcome of the first call.
C1_Original ==
    \A r1 \in Reqs, r2 \in Reqs :
        (Answered(r2) /\ r1 \in req[r2].prior)
            => (req[r2].body = req[r1].body /\ req[r2].ext = {})

\* C1 amended: the same, provided the first call was answered with status
\* 200 (it did not end with the error fallback) and no other request has
\* rewritten the entry of the key in between.
C1_SecondCallIdempotent ==
    \A r1 \in Reqs, r2 \in Reqs :
        (Answered(r2) /\ r1 \in req[r2].prior /\ req[r1].status = 200)
            => (req[r2].body = req[r1].body /\ req[r2].ext = {})

C1_Witness ==
    \E r1 \in Reqs, r2 \in Reqs :
        /\ Answered(r2) /\ r1 \in req[r2].prior /\ req[r1].status = 200
        /\ "speech" \in req[r1].ext /\ req[r2].hit /\ Len(req[r2].body) = 2

\* C2: a request with an empty or an absent message is answered with exactly
\* one message, the greeting text with facialExpression "smile".
C2_GreetingForEmptyOrAbsent ==
    \A r \in Reqs :
        (req[r].pc \in {"done", "thrown"} /\ req[r].userMessage \in {<<>>, Absent})
            => /\ req[r].nresp = 1
               /\ Len(req[r].body) = 1
               /\ req[r].body[1].text = Str(GreetingText)
               /\ req[r].body[1].facialExpression = Str("smile")

\* C3 as stated: in the no-credential mode every answered request carries
\* the noApiKey fallback list and has made no network call.
C3_Original ==
    NoCredential(lemonfoxApiKey) =>
        \A r \in Reqs :
            Answered(r) => (req[r].body = NoApiKeyBody /\ req[r].ext = {})

\* C3 amended: in the no-credential mode no request makes a network call,
\* and every request with a non-empty message is answered 200 with the
\* noApiKey fallback list (an empty message gets the greeting).
C3_NoCredentialFallback ==
    lemonfoxApiKey = "-" =>
        \A r \in Reqs :
            /\ req[r].ext = {}
            /\ (req[r].pc # "idle" /\ req[r].userMessage \notin {<<>>, Absent})
                  => /\ Answered(r) /\ req[r].status = 200 /\ req[r].nresp = 1
                     /\ req[r].body = NoApiKeyBody

C3_Witness ==
    /\ lemonfoxApiKey = "-"
    /\ \E r1 \in Reqs, r2 \in Reqs :
          /\ r1 < r2 /\ Answered(r1) /\ req[r1].userMessage = <<>>
          /\ Answered(r2) /\ req[r2].userMessage = <<"a", "?">>
          /\ req[r2].body = NoApiKeyBody

\* C4: every message of every answer has all five fields.
C4_AllFieldsPresent ==
    \A r \in Reqs :
        Answered(r) => \A i \in 1..Len(req[r].body) : DOMAIN req[r].body[i] = Fields

\* C5: when a conversion or extraction subprocess failed for message i (and
\* no read outside the per-message try failed), the request is answered 200,
\* message i has audio and an empty timing object, and every other message
\* has audio and has timing unless its own lip-sync failed.
C5_LipSyncFailureIsolated ==
    \A r \in Reqs :
        (Answered(r) /\ req[r].execFailed # {} /\ req[r].cause # "postprocess")
            => /\ req[r].status = 200
               /\ \A i \in 1..Len(req[r].body) :
                     /\ IsAudio(req[r].body[i].audio)
                     /\ i \in req[r].caught => req[r].body[i].lipsync = EmptyObj
                     /\ i \notin req[r].caught => req[r].body[i].lipsync.k = "timing"
               /\ req[r].execFailed \subseteq req[r].caught
               /\ req[r].caught \subseteq 1..Len(req[r].body)

C5_Witness ==
    \E r \in Reqs :
        /\ Answered(r) /\ req[r].status = 200 /\ req[r].execFailed = {1}
        /\ Len(req[r].body) = 2
        /\ req[r].body[1].lipsync = EmptyObj /\ IsAudio(req[r].body[1].audio)
        /\ req[r].body[2].lipsync.k = "timing"

\* C6: a reply that is no JSON text after sanitization is answered with a
\* failure status and the error fallback list; the request makes no speech
\* call and writes no audio file.
C6_UnparsableReply ==
    \A r \in Reqs :
        req[r].cause = "parse"
            => /\ Answered(r) /\ req[r].status >= 400 /\ req[r].body = ErrorBody
               /\ "speech" \notin req[r].ext /\ "exec" \notin req[r].ext
               /\ \A i \in Indexes : files.mp3[i].n # r /\ files.wav[i].n # r

C6_Witness ==
    \E r \in Reqs : req[r].cause = "parse" /\ Answered(r) /\ req[r].status = 500

\* C7: a failed completion call, a failed normalization, a failed speech
\* call or a failed read outside the per-message try gives the request
\* exactly one answer: status 500 with the error fallback list.
C7_FailuresCaught ==
    \A r \in Reqs :
        /\ req[r].nresp <= 1
        /\ req[r].cause \in {"completion", "normalize", "speech", "postprocess"}
              => /\ Answered(r) /\ req[r].nresp = 1 /\ req[r].status = 500
                 /\ req[r].body = ErrorBody

C7_Witness ==
    /\ \E r \in Reqs : req[r].cause = "speech" /\ Answered(r)
    /\ \E r \in Reqs : req[r].cause = "postprocess" /\ Answered(r)

\* C8: for every message, conversion starts only after its speech audio is
\* written, and extraction starts only after its conversion is done.
C8_StagesInOrder ==
    \A r \in Reqs, i \in Indexes :
        /\ <<i, "convertStarted">> \in req[r].log
              => (<<i, "audioWritten">> \in req[r].log /\ files.mp3[i].k = "mp3")
        /\ <<i, "extractStarted">> \in req[r].log
              => (<<i, "converted">> \in req[r].log /\ files.wav[i].k = "wav")

C8_Witness ==
    \E r \in Reqs :
        /\ Len(req[r].stage) = 2
        /\ req[r].stage[1] = "rhubarb" /\ req[r].stage[2] = "convert"

C10_QueueFifo ==
    /\ messages = Drop(chats.appended, chats.played)
    /\ ~chats.dirty => message = (IF Len(messages) = 0 THEN <<>> ELSE <<messages[1]>>)

C10_Witness ==
    /\ Len(messages) >= 2 /\ chats.played >= 2 /\ chats.inflight > 0
    /\ ~chats.dirty /\ message = <<messages[1]>>
    /\ messages[1] # messages[2]

\* C11: a /transcribe request with a missing or empty audioBase64, or on a
\* server whose credential is "-", is answered once with status 400 and
\* makes no upstream call; a provider call that fails is answered 500.
C11_TranscribeErrors ==
    \A t \in Reqs :
        /\ stt[t].nresp <= 1
        /\ (stt[t].pc # "idle" /\ (~Truthy(stt[t].audioBase64) \/ lemonfoxApiKey = "-"))
              => /\ stt[t].pc = "done" /\ stt[t].nresp = 1 /\ stt[t].status = 400
                 /\ stt[t].upstream = 0
        /\ stt[t].outcome \in {"badJson", "non2xx", "rejected"}
              => /\ stt[t].pc = "done" /\ stt[t].nresp = 1 /\ stt[t].status = 500
                 /\ stt[t].upstream = 1

C11_Witness ==
    /\ \E t \in Reqs : stt[t].status = 400 /\ stt[t].audioBase64 = Str("")
    /\ \E t \in Reqs : stt[t].status = 500 /\ stt[t].outcome = "non2xx"

\* C12: the list of a request answered 200 from a completion reply has one
\* message per reply entry, and message i carries the text, expression and
\* animation of reply entry i (with the defaults of lines 232-234), in
\* whatever order the speech and lip-sync tasks have completed.
C12_ReplyOrderKept ==
    \A r \in Reqs :
        (Answered(r) /\ req[r].status = 200 /\ "completion" \in req[r].ext)
            => /\ Len(req[r].body) = Len(req[r].reply)
               /\ \A i \in 1..Len(req[r].body) :
                     /\ req[r].body[i].text = Validate(req[r].reply[i]).text
                     /\ req[r].body[i].facialExpression
                            = Validate(req[r].reply[i]).facialExpression
                     /\ req[r].body[i].animation = Validate(req[r].reply[i]).animation

C12_Witness ==
    \E r \in Reqs :
        /\ Answered(r) /\ req[r].status = 200 /\ req[r].swapped
        /\ req[r].reply = <<Hi, Yo>>
        /\ req[r].body[1].text = Str("Hi") /\ req[r].body[2].text = Str("Yo")

\* C13: whenever a recognition session ends while recording is active and
\* no final result has been received, the handler restarts recognition and
\* does not finish the session.
C13_RestartWhileActive ==
    voice.end.active => (voice.end.restarted /\ ~voice.end.finished)

\* C14: the transcript that finishRecording sends to chat() is the captured
\* final transcript if there is one, otherwise the latest non-empty interim
\* transcript; nothing is sent only when there is neither.
C14_BestTranscriptSent ==
    voice.finish.called =>
        voice.finish.sent = (IF voice.finish.final # NoText THEN voice.finish.final
                             ELSE voice.finish.interim)

\* C15: a no-speech timer that runs out while the session is recording and
\* nothing has been transcribed stops the session; after speech has been
\* transcribed no timer stops the session.
C15_NoSpeechTimeoutStops ==
    voice.expiry.fired =>
        /\ (voice.expiry.recording /\ ~voice.expiry.heard) => voice.expiry.stopped
        /\ voice.expiry.heard => ~voice.expiry.stopped

\* C16: every message list that the endpoint has sent in a body, the
\* fallback list of a status-500 answer included, has been appended to the
\* queue by chat().
C16_FallbackPresented == chats.appended = chats.offered

\* C20: the loading flag is true exactly when a chat() call is in flight.
C20_LoadingTracksInFlight == loading <=> (chats.inflight > 0)

\* C17: in every list assembled from a completion reply and answered 200,
\* the audio of a message is the speech that this request synthesized for
\* the message's text, and its timing (when it has one) was extracted from
\* audio of that text; every lip-sync cache entry holds timing extracted
\* from audio of the text it is stored under.
C17_OwnAudioAndTiming ==
    /\ \A r \in Reqs :
          (Answered(r) /\ req[r].status = 200 /\ "completion" \in req[r].ext)
             => \A i \in 1..Len(req[r].body) :
                   /\ req[r].body[i].audio = Base64(req[r].body[i].text.s, r)
                   /\ req[r].body[i].lipsync.k = "timing"
                         => req[r].body[i].lipsync.s = req[r].body[i].text.s
    /\ \A key \in DOMAIN cache :
          key[1] = "lipsync_"
             => (cache[key].obj.k = "timing" /\ cache[key].obj.s = key[2])

\* C18: a request answered from the response cache gets a list that an
\* earlier request with exactly the same message text produced.
C18_CacheKeyedByExactText ==
    \A r \in Reqs :
        (Answered(r) /\ req[r].hit)
            => \E x \in Reqs :
                  /\ x # r /\ Answered(x) /\ req[x].status = 200
                  /\ req[x].userMessage = req[r].userMessage
                  /\ req[x].body = req[r].body

\* C19: no response-cache entry and no answer served from the cache is a
\* fallback list; a step that answers a request with the noApiKey or the
\* error fallback leaves every response-cache entry as it was; and an entry
\* is written only in the step that answers its request with status 200,
\* with the list of that answer.
IsFallbackBody(b) == b = ErrorBody \/ b = NoApiKeyBody
ResponseKeys(c) == {key \in DOMAIN c : key[1] = "response_"}
AnsweredBy(r) == req[r].pc # "done" /\ req'[r].pc = "done"
C19_FallbacksNotCached ==
    /\ [](/\ \A key \in ResponseKeys(cache) : ~IsFallbackBody(ToJsonList(cache[key].list))
          /\ \A r \in Reqs : (Answered(r) /\ req[r].hit) => ~IsFallbackBody(req[r].body))
    /\ [][/\ \A r \in Reqs :
                (AnsweredBy(r) /\ IsFallbackBody(req'[r].body))
                    => /\ ResponseKeys(cache') = ResponseKeys(cache)
                       /\ \A key \in ResponseKeys(cache) : cache'[key] = cache[key]
          /\ \A key \in ResponseKeys(cache') :
                (key \notin DOMAIN cache \/ cache'[key] # cache[key])
                    => \E r \in Reqs :
                          /\ AnsweredBy(r) /\ req'[r].status = 200 /\ ~req'[r].hit
                          /\ CacheKey(req'[r].userMessage) = key
                          /\ ToJsonList(cache'[key].list) = req'[r].body]_vars

C19_Witness ==
    /\ \E r1 \in Reqs, r2 \in Reqs :
          /\ Answered(r1) /\ req[r1].status = 500 /\ "speech" \in req[r1].ext
          /\ r1 \in req[r2].prior /\ req[r2].pc = "llm"
          /\ CacheKey(req[r2].userMessage) \notin DOMAIN cache
    /\ fallbackMessages = Preloaded(TRUE, TRUE)

====
